---- MODULE Spec2Model ----
(***************************************************************************)
(* A model of src/index.ts: the page map (identifier injection and the     *)
(* semantic tree built by buildTree/classifySection) and the single-step   *)
(* decide/execute/retry loop of SmartBrowser.act.                          *)
(*                                                                         *)
(* A document is a pair of sequences in document (pre-)order: els[i] is    *)
(* the element, par[i] the index of its parent (0 for document.body, which *)
(* is element 1).  An element is [tag, role, mod]: its tag name, its role  *)
(* attribute ("" when absent) and one modifier standing for the rest of    *)
(* its attributes and computed style:                                      *)
(*   ""         nothing else                                               *)
(*   "text"     a non-blank direct text node (TextLen characters)           *)
(*   "label"    an aria-label or title attribute                           *)
(*   "none"     display: none                                              *)
(*   "hidden"   visibility: hidden                                         *)
(*   "aria"     aria-hidden="true"                                         *)
(*   "far"      out of the viewport and more than 3 viewports down         *)
(*   "below"    out of the viewport, less than 3 viewports down            *)
(*   "sidebar"  id or class containing "sidebar"                           *)
(*   "modal"    class containing "modal" or "popup"                        *)
(*   "top"      position fixed/sticky, wide, pinned to the top edge        *)
(*   "bottom"   position fixed/sticky, wide, pinned to the bottom edge     *)
(*   "editable" contenteditable="true"                                     *)
(* Texts are modelled by their trimmed length.                             *)
(***************************************************************************)
EXTENDS Integers, Sequences, FiniteSets, TLC

VARIABLES
    page,       \* the live document: [els, par]
    marker,     \* marker[i]: the data-melony-id attribute of element i, NoId when absent
    inv,        \* inv[p]: the locals and the position of invocation p (see IdleInv)
    mgr,        \* the BrowserManager and the Playwright resources it launched
    hnd         \* hnd[p]: the plugin handler running as invocation p (see IdleHandler)

(***************************************************************************)
(* Program constants.                                                      *)
(***************************************************************************)
MAX_NODES == 1500
MAX_DEPTH == 15
SECTION_DEPTH == 6
TEXT_SLICE == 100

\* getAttribute("data-melony-id") === null / a decision's elementId === null
NoId == -1

(***************************************************************************)
(* Bounds of the model.                                                    *)
(***************************************************************************)
MaxElems == 4       \* elements of a small document, body included
MaxChain == 16      \* wrappers between body and the tail of a chain document
MaxWide == 1502     \* children of body in a wide document
TextLen == 5        \* characters of a direct text

Min(a, b) == IF a < b THEN a ELSE b

SectionNames == <<"header", "sidebar", "navigation", "main", "footer", "popups", "other">>

(***************************************************************************)
(* Attributes and computed style of an element.                            *)
(***************************************************************************)
E(tag, role, mod) == [tag |-> tag, role |-> role, mod |-> mod]

NumElems(d) == Len(d.els)

RECURSIVE IsAncestorOrSelf(_, _, _)
IsAncestorOrSelf(d, a, e) ==
    IF e = 0 THEN FALSE ELSE IF a = e THEN TRUE ELSE IsAncestorOrSelf(d, a, d.par[e])

\* el.children, in document order
Children(d, e) == SelectSeq([i \in 1..NumElems(d) |-> i], LAMBDA i : d.par[i] = e)

\* getComputedStyle(el).display === "none" (script, style and noscript are not
\* displayed by the user-agent style sheet)
DisplayNone(d, e) ==
    d.els[e].mod = "none" \/ d.els[e].tag \in {"SCRIPT", "STYLE", "NOSCRIPT"}

\* getComputedStyle(el).visibility === "hidden": visibility is inherited
RECURSIVE VisibilityHidden(_, _)
VisibilityHidden(d, e) ==
    IF e = 0 THEN FALSE
    ELSE IF d.els[e].mod = "hidden" THEN TRUE
    ELSE VisibilityHidden(d, d.par[e])

\* the trimmed length of the element's direct text
directText(d, e) == IF d.els[e].mod = "text" THEN TextLen ELSE 0

\* el.getAttribute("aria-label") || el.getAttribute("title")
HasLabel(d, e) == d.els[e].mod = "label"

\* the length of el.innerText.trim(): the rendered text of the subtree
RECURSIVE innerText(_, _)
RECURSIVE innerTextOf(_, _, _)
innerTextOf(d, kids, i) ==
    IF i > Len(kids) THEN 0 ELSE innerText(d, kids[i]) + innerTextOf(d, kids, i + 1)
innerText(d, e) ==
    IF DisplayNone(d, e) \/ VisibilityHidden(d, e) THEN 0
    ELSE directText(d, e) + innerTextOf(d, Children(d, e), 1)

(***************************************************************************)
(* getPageMap, first evaluate: identifier injection.                       *)
(***************************************************************************)
InteractiveTags == {"BUTTON", "A", "INPUT", "SELECT", "TEXTAREA"}
InteractiveRoles ==
    {"button", "link", "checkbox", "menuitem", "tab", "treeitem", "option", "switch", "radio"}

\* el.matches(selector)
MatchesSelector(d, e) ==
    \/ d.els[e].tag \in InteractiveTags
    \/ d.els[e].role \in InteractiveRoles
    \/ d.els[e].mod = "editable"

\* mutant: hidden elements are numbered too
Marked_IgnoringStyle(d, e) == MatchesSelector(d, e)

\* the elements the second forEach gives an identifier to
Marked(d, e) ==
    /\ MatchesSelector(d, e)
    /\ ~(DisplayNone(d, e) \/ VisibilityHidden(d, e))

\* mutant: the markers of the last scan are not removed
StripMarkers_Kept(d, mk) == mk

\* removeAttribute("data-melony-id") on every element that carries one
StripMarkers(d, mk) == [i \in 1..NumElems(d) |-> NoId]

\* mutant: the counter is not incremented
NextId_Constant(d, e) == 0

\* String(id++): the number of elements marked before e, in document order
NextId(d, e) == Cardinality({j \in 1..(e - 1) : Marked(d, j)})

InjectIds(d, mk) ==
    LET stripped == StripMarkers(d, mk)
    IN [i \in 1..NumElems(d) |-> IF Marked(d, i) THEN NextId(d, i) ELSE stripped[i]]

(***************************************************************************)
(* getPageMap, second evaluate: classifySection and buildTree.             *)
(***************************************************************************)
\* mutant: the footer test comes before the header test
classifySection_FooterFirst(a) ==
    IF a.tag = "FOOTER" \/ a.role = "contentinfo" THEN "footer"
    ELSE IF a.tag = "HEADER" \/ a.role = "banner" THEN "header"
    ELSE IF a.tag = "NAV" \/ a.role = "navigation" THEN "navigation"
    ELSE ""

\* rect.top <= 50 && rect.width > vW * 0.8 / rect.bottom >= vH - 50 && ...
classifySection(a) ==
    IF a.tag = "HEADER" \/ a.role = "banner" THEN "header"
    ELSE IF a.tag = "FOOTER" \/ a.role = "contentinfo" THEN "footer"
    ELSE IF a.tag = "NAV" \/ a.role = "navigation" THEN "navigation"
    ELSE IF a.tag = "MAIN" \/ a.role = "main" THEN "main"
    ELSE IF a.tag = "ASIDE" \/ a.role = "complementary" \/ a.mod = "sidebar" THEN "sidebar"
    ELSE IF a.role = "dialog" \/ a.role = "alertdialog" \/ a.mod = "modal" THEN "popups"
    ELSE IF a.mod = "top" THEN "header"
    ELSE IF a.mod = "bottom" THEN "footer"
    ELSE ""

SkipTags == {"SCRIPT", "STYLE", "NOSCRIPT", "SVG", "IFRAME"}
HeadingTags == {"H1", "H2", "H3", "H4", "H5", "H6"}
interestingRoles == {"heading", "img", "alert", "dialog", "status", "gridcell", "list"}

\* the section classification of a call: classifySection only above SECTION_DEPTH
SectionAt(a, depth) == IF depth < SECTION_DEPTH THEN classifySection(a) ELSE ""

\* the first guard of buildTree
CapReached(count, depth) == count > MAX_NODES \/ depth > MAX_DEPTH

\* hidden by computed style or aria-hidden
Invisible(d, e) ==
    DisplayNone(d, e) \/ VisibilityHidden(d, e) \/ d.els[e].mod = "aria"

\* !inViewport && rect.top > vH * 3
FarBelow(a) == a.mod = "far"

isInteresting(isInteractive, isHeading, text, nchildren, role) ==
    isInteractive \/ isHeading \/ text > 0 \/ nchildren > 0 \/ role \in interestingRoles

\* mutant: wrappers are never flattened
Flattens_Never(isInteractive, text, nchildren, section, isHeading, role) == FALSE

\* flatten container-only nodes
Flattens(isInteractive, text, nchildren, section, isHeading, role) ==
    /\ ~isInteractive
    /\ text = 0
    /\ nchildren = 1
    /\ section = ""
    /\ ~isHeading
    /\ role = ""

\* section && depth < 6: the node goes to its bucket and null is returned
Bucketed(section, depth) == section # "" /\ depth < SECTION_DEPTH

\* mutant: the bucketed node is also returned to the parent
BucketReturn_Node(node) == <<node>>

\* what a bucketed call returns to its parent
BucketReturn(node) == << >>

EmptySections == [s \in {SectionNames[i] : i \in 1..Len(SectionNames)} |-> << >>]

\* The state buildTree closes over: count, sections, and (history) the log of
\* the calls that got past the guards, in the order in which they returned.
NewBuild == [count |-> 0, sections |-> EmptySections, log |-> << >>]

RECURSIVE buildTree(_, _, _, _, _, _)
RECURSIVE mapChildren(_, _, _, _, _, _, _, _)

\* Array.from(el.children).map(c => buildTree(c, depth + 1, active)).filter(Boolean),
\* kids[lo..hi] left to right (split in halves to bound the evaluation depth)
mapChildren(d, mk, kids, lo, hi, depth, active, st) ==
    IF lo > hi THEN [ret |-> << >>, st |-> st]
    ELSE IF lo = hi THEN buildTree(d, mk, kids[lo], depth, active, st)
    ELSE LET mid == (lo + hi) \div 2
             left == mapChildren(d, mk, kids, lo, mid, depth, active, st)
             right == mapChildren(d, mk, kids, mid + 1, hi, depth, active, left.st)
         IN [ret |-> left.ret \o right.ret, st |-> right.st]

\* Returns [ret, st]: ret is << >> for null and <<node>> for a node.
buildTree(d, mk, el, depth, currentSection, st) ==
    LET a == d.els[el] IN
    IF CapReached(st.count, depth) THEN [ret |-> << >>, st |-> st]
    ELSE IF a.tag \in SkipTags THEN [ret |-> << >>, st |-> st]
    ELSE IF Invisible(d, el) THEN [ret |-> << >>, st |-> st]
    ELSE IF FarBelow(a) THEN [ret |-> << >>, st |-> st]
    ELSE
    LET melonyId == mk[el]
        isInteractive == melonyId # NoId
        role == a.role
        isHeading == a.tag \in HeadingTags
        text == directText(d, el)
        section == SectionAt(a, depth)
        active == IF section # "" THEN section
                  ELSE IF currentSection # "" THEN currentSection ELSE "other"
        kids == Children(d, el)
        sub == mapChildren(d, mk, kids, 1, Len(kids), depth + 1, active, st)
        children == sub.ret
        st1 == sub.st
        entry == [el |-> el, depth |-> depth, section |-> section,
                  isInteractive |-> isInteractive, isHeading |-> isHeading,
                  text |-> text, role |-> role, children |-> children,
                  countIn |-> st1.count]
        node == [el |-> el, depth |-> depth, tag |-> a.tag, id |-> melonyId,
                 text |-> IF isInteractive \/ isHeading
                          THEN Min(innerText(d, el), TEXT_SLICE) ELSE text,
                 role |-> role, label |-> HasLabel(d, el),
                 inViewport |-> a.mod # "below",
                 children |-> children]
    IN
    IF ~isInteresting(isInteractive, isHeading, text, Len(children), role)
       /\ ~HasLabel(d, el)
    THEN [ret |-> << >>,
          st |-> [st1 EXCEPT !.log = Append(@, entry
                                                @@ [out |-> "pruned", ret |-> << >>,
                                                    count |-> st1.count])]]
    ELSE IF Flattens(isInteractive, text, Len(children), section, isHeading, role)
    THEN [ret |-> children,
          st |-> [st1 EXCEPT !.log = Append(@, entry @@ [out |-> "flat", ret |-> children,
                                                         count |-> st1.count])]]
    ELSE IF Bucketed(section, depth)
    THEN [ret |-> BucketReturn(node),
          st |-> [count |-> st1.count + 1,
                  sections |-> [st1.sections EXCEPT ![section] = Append(@, node)],
                  log |-> Append(st1.log, entry @@ [out |-> "bucket",
                                                    ret |-> BucketReturn(node),
                                                    count |-> st1.count + 1])]]
    ELSE [ret |-> <<node>>,
          st |-> [st1 EXCEPT !.count = @ + 1,
                             !.log = Append(@, entry @@ [out |-> "node", ret |-> <<node>>,
                                                         count |-> st1.count + 1])]]

\* const remaining = buildTree(document.body); if (remaining) sections.other.push(remaining)
BuildSections(d, mk) ==
    LET r == buildTree(d, mk, 1, 0, "", NewBuild)
    IN [r.st EXCEPT !.sections.other = @ \o r.ret]

\* the value getPageMap returns: the non-empty sections (count and log are history)
PageMapOf(d, mk) ==
    LET b == BuildSections(d, mk)
        names == {s \in DOMAIN b.sections : Len(b.sections[s]) > 0}
    IN [sections |-> [s \in names |-> b.sections[s]], count |-> b.count, log |-> b.log]

(***************************************************************************)
(* Documents.                                                              *)
(***************************************************************************)
Body == E("BODY", "", "")

\* parent sequences of the documents of n elements in document order
ParSeqs(n) ==
    {p \in [1..n -> 0..(n - 1)] :
        /\ p[1] = 0
        /\ \A i \in 2..n : p[i] >= 1 /\ p[i] < i
                           /\ IsAncestorOrSelf([par |-> p], p[i], i - 1)}

SmallPalette ==
    {E("DIV", "", ""), E("DIV", "", "text"), E("DIV", "", "label"), E("DIV", "", "none"),
     E("A", "", ""), E("H1", "", ""), E("NAV", "", ""), E("NAV", "", "text"),
     E("DIV", "banner", "")}

\* body and up to MaxElems - 1 elements of the palette, in every tree shape
SmallDoc(n, p, k) == [els |-> <<Body>> \o k, par |-> p]

ChainTags == {"DIV", "SPAN", "BUTTON", "H2", "HEADER", "FOOTER", "NAV", "MAIN", "ASIDE"}
ChainRoles == {"", "banner", "contentinfo", "navigation", "main", "list"}
ChainLinks == {E("DIV", "", ""), E("DIV", "", "text")}

\* body > link^k > tail
ChainDoc(k, link, tail) ==
    [els |-> <<Body>> \o [i \in 1..k |-> link] \o <<tail>>,
     par |-> [i \in 1..(k + 2) |-> i - 1]]

\* body with w text children
WideDoc(w) ==
    [els |-> <<Body>> \o [i \in 1..w |-> E("P", "", "text")],
     par |-> <<0>> \o [i \in 1..w |-> 1]]

\* page = d for a document d of one of the three families
TreeDoc(d) ==
    \/ \E n \in 1..MaxElems : \E p \in ParSeqs(n) :
          \E k \in [1..(n - 1) -> SmallPalette] : d = SmallDoc(n, p, k)
    \/ \E k \in 0..MaxChain : \E link \in ChainLinks :
          \E tag \in ChainTags : \E role \in ChainRoles :
             d = ChainDoc(k, link, E(tag, role, "text"))
    \/ d = WideDoc(MaxWide)

(***************************************************************************)
(* Invocations.  inv[p] holds what one call (act, or a bare getPageMap)    *)
(* keeps between its awaits:                                               *)
(*   op          "act" or "getPageMap"                                     *)
(*   pc          "idle", "stabilize", "screenshot", "inject", "build",     *)
(*               "decide", "execute", "returned", "threw"; a bare          *)
(*               getPageMap ends in "built"                                *)
(*   retry, lastError   the arguments of run ("" for undefined)            *)
(*   screenshot  whether page.screenshot gave a buffer                     *)
(*   state       the page map of the current attempt                       *)
(*   output      the decision of the current attempt                       *)
(*   result, error      what the call returned, or the message it threw    *)
(* and, as history of the call: stabs and snaps (the waitForStable and     *)
(* getPageMap calls completed), decides (the generateText calls) and prims *)
(* (the primitives dispatched).                                            *)
(***************************************************************************)
vars == <<page, marker, inv, mgr, hnd>>

Procs == {1, 2}

(***************************************************************************)
(* BrowserManager.  Launch n (1, 2, ...) creates browser n and context n;  *)
(* the pages of context n are <<n, 1>>, <<n, 2>>, ...  0 stands for        *)
(* undefined.  The record keeps the manager's fields (options, headless,   *)
(* browser, context, pages), what Playwright holds open (browsers,         *)
(* contexts, livePages), the mode each browser was launched in (modes)     *)
(* and the pages ensurePage returned since the last cleanup (acquired).    *)
(***************************************************************************)
MaxLaunches == 3    \* browsers launched in one behaviour
MaxAcquires == 3    \* ensurePage calls remembered between two cleanups

NoOverride == << >>
Overrides == {NoOverride, <<TRUE>>, <<FALSE>>}

\* constructor: this.headless = options.headless ?? true
NewManager(userDataDir, headlessOption) ==
    [userDataDir |-> userDataDir,
     headless |-> IF headlessOption = NoOverride THEN TRUE ELSE headlessOption[1],
     browser |-> 0, context |-> 0, pages |-> << >>,
     launched |-> 0, browsers |-> {}, contexts |-> {}, livePages |-> {},
     modes |-> << >>, acquired |-> << >>]

\* what a launch may do: throw; for a persistent context, context.browser()
\* may be null and context.pages() may hold the profile's first page
LaunchOutcomes == [ok : BOOLEAN, browserNull : BOOLEAN, firstPage : BOOLEAN]

LaunchWorks == [ok |-> TRUE, browserNull |-> FALSE, firstPage |-> FALSE]

Threw(m) == [m |-> m, threw |-> TRUE]
Returned(m) == [m |-> m, threw |-> FALSE]

\* chromium.launchPersistentContext / chromium.launch + browser.newContext
Launch(m, w) ==
    LET n == m.launched + 1
        up == [m EXCEPT !.launched = n, !.browsers = @ \cup {n},
                        !.contexts = @ \cup {n}, !.modes = Append(@, m.headless)]
    IN IF m.userDataDir
       THEN [up EXCEPT !.context = n,
                       !.browser = IF w.browserNull THEN 0 ELSE n,
                       !.pages = IF w.firstPage THEN << <<n, 1>> >> ELSE << >>,
                       !.livePages = IF w.firstPage THEN @ \cup {<<n, 1>>} ELSE @]
       ELSE [up EXCEPT !.browser = n, !.context = n]

ensureBrowser(m, headlessOverride, w) ==
    LET m1 == IF headlessOverride # NoOverride
              THEN [m EXCEPT !.headless = headlessOverride[1]] ELSE m
    IN IF m1.browser # 0 THEN Returned(m1)
       ELSE IF ~w.ok THEN Threw(m1)
       ELSE Returned(Launch(m1, w))

\* context.newPage(): the next page of the context
NewPage(m) == <<m.context, 1 + Cardinality({q \in m.livePages : q[1] = m.context})>>

ensurePage(m, headlessOverride, w) ==
    LET r == ensureBrowser(m, headlessOverride, w)
        m1 == r.m
    IN IF r.threw THEN r
       ELSE IF Len(m1.pages) = 0
       THEN Returned([m1 EXCEPT !.pages = Append(@, NewPage(m1)),
                                !.livePages = @ \cup {NewPage(m1)}])
       ELSE r

\* the page ensurePage returns: this.pages[0]
FirstPage(m) == m.pages[1]

\* context.close(): the context and its pages; a persistent context takes
\* its browser with it
CloseContext(m) ==
    [m EXCEPT !.contexts = @ \ {m.context},
              !.livePages = {q \in @ : q[1] # m.context},
              !.browsers = IF m.userDataDir THEN @ \ {m.context} ELSE @]

\* browser.close(): the browser, its context and its pages
CloseBrowser(m) ==
    [m EXCEPT !.browsers = @ \ {m.browser}, !.contexts = @ \ {m.browser},
              !.livePages = {q \in @ : q[1] # m.browser}]

cleanup(m) ==
    LET closed == IF m.context # 0 THEN CloseContext(m)
                  ELSE IF m.browser # 0 THEN CloseBrowser(m)
                  ELSE m
    IN [closed EXCEPT !.browser = 0, !.context = 0, !.pages = << >>,
                      !.acquired = << >>]

relaunch(m, headless, w) == ensureBrowser(cleanup(m), <<headless>>, w)

\* ensurePage as the manager's history keeps it
Acquired(m) == [page |-> FirstPage(m), launched |-> m.launched, live |-> m.livePages]

(***************************************************************************)
(* A plugin handler: what it was called for, where it is, its events.      *)
(***************************************************************************)
\* returned/res: the operation returned res; caught: the message of the error
\* the handler's catch received ("" when none); yielded: how yieldState went;
\* overlapped: another handler's operation was in flight during this one's
IdleHandler ==
    [tool |-> "", pc |-> "idle", events |-> << >>, returned |-> FALSE,
     res |-> << >>, caught |-> "", yielded |-> "", overlapped |-> FALSE]


NoPageMap == [sections |-> [s \in {} |-> << >>], count |-> 0, log |-> << >>]

\* generateText's output when the model returned nothing; "" and NoId stand for null
NullOutput ==
    [action |-> "", elementId |-> NoId, text |-> "", key |-> "", url |-> "",
     direction |-> "", reasoning |-> ""]

NoResult == [success |-> FALSE, action |-> "", reasoning |-> "", message |-> ""]

\* scanned: the attempt in which this invocation assigned the markers now on
\* the page, 0 when it has not or when another invocation has re-scanned since
IdleInv ==
    [op |-> "", pc |-> "idle", retry |-> 0, lastError |-> "", screenshot |-> FALSE,
     state |-> NoPageMap, output |-> NullOutput, result |-> NoResult, error |-> "",
     stabs |-> 0, snaps |-> 0, decides |-> << >>, prims |-> << >>,
     waits |-> << >>, content |-> 0, scanned |-> 0]

\* a bare getPageMap call about to start
MapCall == [IdleInv EXCEPT !.op = "getPageMap", !.pc = "inject"]

\* the page map and position of invocation 1, which the page-map claims read
pageMap == inv[1].state
Built == inv[1].pc = "built"

(***************************************************************************)
(* getPageMap as two steps, one per page.evaluate.                         *)
(***************************************************************************)
\* what follows getPageMap in act, in observe, and for a bare call
AfterBuild(op) ==
    IF op = "act" THEN "decide" ELSE IF op = "observe" THEN "screenshot" ELSE "built"

Inject(p) ==
    /\ inv[p].pc = "inject"
    /\ marker' = InjectIds(page, marker)
    /\ inv' = [q \in Procs |->
                  IF q = p THEN [inv[q] EXCEPT !.pc = "build", !.scanned = inv[q].retry + 1]
                  ELSE [inv[q] EXCEPT !.scanned = 0]]
    /\ UNCHANGED page
    /\ UNCHANGED <<mgr, hnd>>

Build(p) ==
    /\ inv[p].pc = "build"
    /\ inv' = [inv EXCEPT ![p].state = PageMapOf(page, marker),
                          ![p].snaps = @ + 1,
                          ![p].pc = AfterBuild(inv[p].op)]
    /\ UNCHANGED <<page, marker>>
    /\ UNCHANGED <<mgr, hnd>>

InitTree ==
    /\ TreeDoc(page)
    /\ marker = [i \in 1..NumElems(page) |-> NoId]
    /\ inv = [p \in Procs |-> IF p = 1 THEN MapCall ELSE IdleInv]
    /\ mgr = NewManager(FALSE, NoOverride)
    /\ hnd = [p \in Procs |-> IdleHandler]

NextTree == Inject(1) \/ Build(1)

SpecTree == InitTree /\ [][NextTree]_vars

(***************************************************************************)
(* A page that changes between two getPageMap calls: the page's own        *)
(* scripts restyle an element, clone one (cloneNode copies its attributes, *)
(* data-melony-id included) or remove one.  The markers of the last scan   *)
(* stay on the elements until the next one.                                *)
(***************************************************************************)
MaxMapElems == 4    \* elements of a page of SpecMap, body included

MapPalette ==
    {E("DIV", "", "text"), E("DIV", "button", "text"), E("DIV", "", "hidden"),
     E("BUTTON", "", "text"), E("BUTTON", "", "none")}

MapDoc(d) ==
    \E n \in 1..MaxMapElems : \E p \in ParSeqs(n) :
       \E k \in [1..(n - 1) -> MapPalette] : d = SmallDoc(n, p, k)

IsLeaf(d, e) == \A i \in 1..NumElems(d) : d.par[i] # e

\* sequence q with q[e] repeated after position e
Duplicate(q, e) == SubSeq(q, 1, e) \o <<q[e]>> \o SubSeq(q, e + 1, Len(q))
\* sequence q without position e
Without(q, e) == SubSeq(q, 1, e - 1) \o SubSeq(q, e + 1, Len(q))

Restyle(e, k) ==
    /\ inv[1].pc \in {"inject", "built"}
    /\ e \in 2..NumElems(page)
    /\ k.tag = page.els[e].tag
    /\ k # page.els[e]
    /\ page' = [page EXCEPT !.els[e] = k]
    /\ inv' = [inv EXCEPT ![1] = MapCall]
    /\ UNCHANGED marker
    /\ UNCHANGED <<mgr, hnd>>

Clone(e) ==
    /\ inv[1].pc \in {"inject", "built"}
    /\ e \in 2..NumElems(page)
    /\ IsLeaf(page, e)
    /\ NumElems(page) < MaxMapElems
    /\ page' = [els |-> Duplicate(page.els, e),
                par |-> [i \in 1..(NumElems(page) + 1) |->
                            LET q == Duplicate(page.par, e)[i]
                            IN IF q > e THEN q + 1 ELSE q]]
    /\ marker' = Duplicate(marker, e)
    /\ inv' = [inv EXCEPT ![1] = MapCall]
    /\ UNCHANGED <<mgr, hnd>>

Remove(e) ==
    /\ inv[1].pc \in {"inject", "built"}
    /\ e \in 2..NumElems(page)
    /\ IsLeaf(page, e)
    /\ page' = [els |-> Without(page.els, e),
                par |-> [i \in 1..(NumElems(page) - 1) |->
                            LET q == Without(page.par, e)[i]
                            IN IF q > e THEN q - 1 ELSE q]]
    /\ marker' = Without(marker, e)
    /\ inv' = [inv EXCEPT ![1] = MapCall]
    /\ UNCHANGED <<mgr, hnd>>

\* the next getPageMap call on the same page
Rescan ==
    /\ inv[1].pc = "built"
    /\ inv' = [inv EXCEPT ![1] = MapCall]
    /\ UNCHANGED <<page, marker>>
    /\ UNCHANGED <<mgr, hnd>>

InitMap ==
    /\ MapDoc(page)
    /\ marker = [i \in 1..NumElems(page) |-> NoId]
    /\ inv = [p \in Procs |-> IF p = 1 THEN MapCall ELSE IdleInv]
    /\ mgr = NewManager(FALSE, NoOverride)
    /\ hnd = [p \in Procs |-> IdleHandler]

NextMap ==
    \/ Inject(1)
    \/ Build(1)
    \/ Rescan
    \/ \E e \in 2..MaxMapElems : \E k \in MapPalette : Restyle(e, k)
    \/ \E e \in 2..MaxMapElems : Clone(e)
    \/ \E e \in 2..MaxMapElems : Remove(e)

SpecMap == InitMap /\ [][NextMap]_vars

(***************************************************************************)
(* SmartBrowser.act: run(retry, lastError), one step per await.  The       *)
(* language model is configured (this.model is set); the model's answer,   *)
(* the outcome of the screenshot and of each Playwright call, and what a   *)
(* primitive does to the page are inputs.                                  *)
(***************************************************************************)
MaxDecisionId == 1      \* the model names element ids 0..MaxDecisionId, or none

Reasonings == {"r1", "r2"}
Errors == {"e1", "e2"}      \* messages of the errors Playwright throws (never empty)
NoOutputMessage == "LLM returned no structured output"
ModelFailure == "generateText failed"

Decision(action, elementId, text, key, url, direction, reasoning) ==
    [action |-> action, elementId |-> elementId, text |-> text, key |-> key,
     url |-> url, direction |-> direction, reasoning |-> reasoning]

\* the objects of actionSchema the model answers with: the fields of the other
\* actions are null
OutputsWith(r) ==
    {Decision("click", id, "", "", "", "", r) : id \in {NoId} \cup 0..MaxDecisionId}
    \cup {Decision("type", id, t, "", "", "", r) :
             id \in {NoId} \cup 0..MaxDecisionId, t \in {"", "pizza"}}
    \cup {Decision("press", NoId, "", k, "", "", r) : k \in {"", "Enter"}}
    \cup {Decision("scroll", NoId, "", "", "", d, r) : d \in {"", "up", "down"}}
    \cup {Decision("navigate", NoId, "", "", u, "", r) : u \in {"", "https://a.example"}}
    \cup {Decision("wait", NoId, "", "", "", "", r), Decision("done", NoId, "", "", "", "", r)}

Outputs == UNION {OutputsWith(r) : r \in Reasonings}

\* the decision omits a field its action requires
MissingParameter(o) ==
    \/ o.action \in {"click", "type"} /\ o.elementId = NoId
    \/ o.action = "type" /\ o.text = ""
    \/ o.action = "press" /\ o.key = ""
    \/ o.action = "navigate" /\ o.url = ""

\* page.locator(`[data-melony-id="${id}"]`): the elements the locator matches
\* (a null id gives the selector [data-melony-id="null"], which matches none)
Locate(mk, id) == IF id = NoId THEN {} ELSE {e \in DOMAIN mk : mk[e] = id}

Outcome(ok, steps) == [ok |-> ok, steps |-> steps]

\* clickById / typeById: waitFor times out when the locator matches nothing;
\* scrollIntoViewIfNeeded's failure is swallowed; the click or fill may throw
ById(mk, id, op) ==
    IF Locate(mk, id) = {}
    THEN {Outcome(FALSE, <<"locate">>)}
    ELSE {Outcome(ok, <<"locate", "scrollIntoView", op>>) : ok \in BOOLEAN}

\* the switch of run: the outcomes of the primitive of decision o, each with the
\* Playwright calls made.  The arguments are passed on unchecked (output.key!,
\* output.url!, ...), so a null reaches Playwright, which may throw on it.
Primitive(mk, o) ==
    IF o.action = "click" THEN ById(mk, o.elementId, "click")
    ELSE IF o.action = "type" THEN ById(mk, o.elementId, "fill")
    ELSE IF o.action = "press" THEN {Outcome(ok, <<"press">>) : ok \in BOOLEAN}
    ELSE IF o.action = "scroll" THEN {Outcome(ok, <<"scrollBy">>) : ok \in BOOLEAN}
    ELSE IF o.action = "navigate" THEN {Outcome(ok, <<"goto">>) : ok \in BOOLEAN}
    ELSE IF o.action = "wait" THEN {Outcome(ok, <<"waitForTimeout">>) : ok \in BOOLEAN}
    ELSE {Outcome(TRUE, << >>)}

\* the calls that act on the page
Mutating == {"click", "fill", "press", "goto"}

\* mutant: a "done" decision is dispatched like the others
IsDone_Never(o) == FALSE

IsDone(o) == o.action = "done"

DoneResult(o) == [NoResult EXCEPT !.success = TRUE, !.message = o.reasoning]

\* mutant: the result names the action only
ActedResult_NoReasoning(o) == [NoResult EXCEPT !.action = o.action]

ActedResult(o) == [NoResult EXCEPT !.action = o.action, !.reasoning = o.reasoning]

\* mutant: two retries
RetryAllowed_Twice(retry) == retry < 2

\* if (retry < 1) return run(retry + 1, e.message)
RetryAllowed(retry) == retry < 1

\* ...(lastError ? [{type: "text", text: `Previous error: ${lastError}`}] : [])
ErrorContext(lastError) == IF lastError # "" THEN lastError ELSE ""

\* the documents of SpecAct: two buttons; a link in a nav and a text
ActDocs ==
    {SmallDoc(3, <<0, 1, 1>>, <<E("BUTTON", "", "text"), E("BUTTON", "", "text")>>),
     SmallDoc(4, <<0, 1, 2, 1>>,
              <<E("NAV", "", ""), E("A", "", "text"), E("DIV", "", "text")>>)}

Call(p) ==
    /\ inv[p].pc \in {"idle", "returned", "threw"}
    /\ inv' = [inv EXCEPT ![p] = [IdleInv EXCEPT !.op = "act", !.pc = "stabilize"]]
    /\ UNCHANGED <<page, marker>>
    /\ UNCHANGED <<mgr, hnd>>

\* the sub-waits of waitForStable: TRUE when the wait resolved in time, FALSE
\* when it timed out.  A timeout of the first wait reaches the outer catch and
\* skips the other two.
WaitOutcomes ==
    {<<FALSE>>} \cup {<<TRUE, net, busy>> : net \in BOOLEAN, busy \in BOOLEAN}

WaitNames == <<"domcontentloaded", "networkidle", "busy">>

\* mutant: no settle sleep after a timeout of the first wait
waitForStable_NoSettle(w) ==
    [i \in 1..Len(w) |-> [wait |-> WaitNames[i], ok |-> w[i]]]
        \o (IF w[1] THEN <<[wait |-> "settle", ok |-> TRUE]>> ELSE << >>)

\* waitForStable: the waits made, each with its outcome, then the settle sleep
waitForStable(w) ==
    [i \in 1..Len(w) |-> [wait |-> WaitNames[i], ok |-> w[i]]]
        \o <<[wait |-> "settle", ok |-> TRUE]>>

\* mutant: act goes from the wait to the decision, without a re-scan
AfterStable_NoScan(op) ==
    IF op = "act" THEN "decide" ELSE IF op = "observe" THEN "inject" ELSE "content"

\* what follows waitForStable in act, observe and extract
AfterStable(op) ==
    IF op = "act" THEN "screenshot" ELSE IF op = "observe" THEN "inject" ELSE "content"

\* await this.waitForStable(page): every sub-wait's timeout is swallowed
Stabilize(p) ==
    /\ inv[p].pc = "stabilize"
    /\ \E w \in WaitOutcomes :
          inv' = [inv EXCEPT ![p].pc = AfterStable(inv[p].op), ![p].stabs = @ + 1,
                             ![p].waits = waitForStable(w)]
    /\ UNCHANGED <<page, marker>>
    /\ UNCHANGED <<mgr, hnd>>

\* mutant: act decides on the snapshot it already has
AfterScreenshot_NoSnapshot(op) == IF op = "act" THEN "decide" ELSE "suggest"

\* what follows the screenshot in act and in observe
AfterScreenshot(op) == IF op = "act" THEN "inject" ELSE "suggest"

\* page.screenshot(...).catch(() => null)
Screenshot(p) ==
    /\ inv[p].pc = "screenshot"
    /\ \E ok \in BOOLEAN :
          inv' = [inv EXCEPT ![p].pc = AfterScreenshot(inv[p].op),
                             ![p].screenshot = ok]
    /\ UNCHANGED <<page, marker>>
    /\ UNCHANGED <<mgr, hnd>>

\* the generateText call as the history keeps it
DecideCall(c, out, rejected) ==
    [attempt |-> c.retry + 1, context |-> ErrorContext(c.lastError),
     image |-> c.screenshot, stabs |-> c.stabs, snaps |-> c.snaps, output |-> out,
     rejected |-> rejected, dom |-> c.state.sections]

\* generateText, then the two tests on its output
Decide(p) ==
    /\ inv[p].pc = "decide"
    /\ \E out \in Outputs \cup {NullOutput} :
          LET c == [inv[p] EXCEPT !.decides = Append(@, DecideCall(inv[p], out, FALSE)),
                                  !.output = out]
          IN inv' = [inv EXCEPT ![p] =
                IF out = NullOutput
                THEN [c EXCEPT !.pc = "threw", !.error = NoOutputMessage]
                ELSE IF IsDone(out)
                THEN [c EXCEPT !.pc = "returned", !.result = DoneResult(out)]
                ELSE [c EXCEPT !.pc = "execute"]]
    /\ UNCHANGED <<page, marker>>
    /\ UNCHANGED <<mgr, hnd>>

\* generateText rejects: the error leaves run, outside its try
DecideFails(p) ==
    /\ inv[p].pc = "decide"
    /\ inv' = [inv EXCEPT ![p].pc = "threw", ![p].error = ModelFailure,
                          ![p].decides = Append(@, DecideCall(inv[p], NullOutput, TRUE))]
    /\ UNCHANGED <<page, marker>>
    /\ UNCHANGED <<mgr, hnd>>

\* the primitive as the history keeps it
PrimCall(c, outcome, msg) ==
    [attempt |-> c.retry + 1, output |-> c.output, ok |-> outcome.ok,
     steps |-> outcome.steps, error |-> msg, snaps |-> c.snaps,
     generation |-> c.scanned, target |-> Locate(marker, c.output.elementId)]

\* the try block of run: the primitive, then return, retry or rethrow.  A call
\* that acted on the page may have loaded another document.
Execute(p) ==
    /\ inv[p].pc = "execute"
    /\ \E outcome \in Primitive(marker, inv[p].output) :
       \E msg \in IF outcome.ok THEN {""} ELSE Errors :
          LET c == [inv[p] EXCEPT !.prims = Append(@, PrimCall(inv[p], outcome, msg))]
          IN /\ inv' = [inv EXCEPT ![p] =
                   IF outcome.ok
                   THEN [c EXCEPT !.pc = "returned", !.result = ActedResult(c.output)]
                   ELSE IF RetryAllowed(c.retry)
                   THEN [c EXCEPT !.pc = "stabilize", !.retry = @ + 1, !.lastError = msg]
                   ELSE [c EXCEPT !.pc = "threw", !.error = msg]]
             /\ \/ UNCHANGED <<page, marker>>
                \/ /\ \E i \in 1..Len(outcome.steps) : outcome.steps[i] \in Mutating
                   /\ \E d \in ActDocs :
                         /\ d # page
                         /\ page' = d
                         /\ marker' = [i \in 1..NumElems(d) |-> NoId]
    /\ UNCHANGED <<mgr, hnd>>

InitAct ==
    /\ page \in ActDocs
    /\ marker = [i \in 1..NumElems(page) |-> NoId]
    /\ inv = [p \in Procs |-> IdleInv]
    /\ mgr = NewManager(FALSE, NoOverride)
    /\ hnd = [p \in Procs |-> IdleHandler]

NextAct ==
    \/ Call(1)
    \/ Stabilize(1)
    \/ Screenshot(1)
    \/ Inject(1)
    \/ Build(1)
    \/ Decide(1)
    \/ DecideFails(1)
    \/ Execute(1)

SpecAct == InitAct /\ [][NextAct]_vars

(***************************************************************************)
(* SmartBrowser.extract.  A string is the sequence of its characters; the  *)
(* model's data strings are drawn from JsonChars.  JSON.parse is modelled  *)
(* on the JSON these characters can spell: numbers of the digit 1, arrays, *)
(* white space.  A value is tagged with its type: a string, a number or an *)
(* array of values.                                                        *)
(***************************************************************************)
CONTENT_SLICE == 15000
MaxDataLen == 4     \* characters of the model's data string

JsonChars == {"1", "[", "]", ",", " ", "x"}
Confidences == {0, 1}

Str(chars) == [t |-> "str", v |-> chars]
Num(n) == [t |-> "num", v |-> n]
Arr(vals) == [t |-> "arr", v |-> vals]

ParseFail == [ok |-> FALSE, val |-> Num(0), next |-> 0]
Parsed(val, next) == [ok |-> TRUE, val |-> val, next |-> next]

\* the first position from i on that holds no white space
SkipWs(s, i) ==
    IF \E j \in i..Len(s) : s[j] # " "
    THEN CHOOSE j \in i..Len(s) : s[j] # " " /\ \A k \in i..(j - 1) : s[k] = " "
    ELSE Len(s) + 1

\* the number spelt by the digits from i on: <<value, next position>>
RECURSIVE ParseDigits(_, _, _)
ParseDigits(s, i, n) ==
    IF i <= Len(s) /\ s[i] = "1" THEN ParseDigits(s, i + 1, 10 * n + 1) ELSE <<n, i>>

RECURSIVE ParseValue(_, _)
RECURSIVE ParseElements(_, _, _)
ParseValue(s, i) ==
    LET j == SkipWs(s, i)
    IN IF j > Len(s) THEN ParseFail
       ELSE IF s[j] = "1"
       THEN LET d == ParseDigits(s, j, 0) IN Parsed(Num(d[1]), d[2])
       ELSE IF s[j] = "["
       THEN LET k == SkipWs(s, j + 1)
            IN IF k <= Len(s) /\ s[k] = "]" THEN Parsed(Arr(<< >>), k + 1)
               ELSE ParseElements(s, j + 1, << >>)
       ELSE ParseFail

ParseElements(s, i, acc) ==
    LET r == ParseValue(s, i)
        k == SkipWs(s, r.next)
    IN IF ~r.ok \/ k > Len(s) THEN ParseFail
       ELSE IF s[k] = "," THEN ParseElements(s, k + 1, Append(acc, r.val))
       ELSE IF s[k] = "]" THEN Parsed(Arr(Append(acc, r.val)), k + 1)
       ELSE ParseFail

\* JSON.parse: one value, white space around it and nothing else
JSONparse(s) ==
    LET r == ParseValue(s, 1)
    IN IF r.ok /\ SkipWs(s, r.next) > Len(s) THEN r ELSE ParseFail

DataStrings == UNION {[1..n -> JsonChars] : n \in 0..MaxDataLen}

\* the objects of extract's schema {data: string, confidence: number}
ExtractOutput(chars, confidence) == [data |-> Str(chars), confidence |-> confidence]

\* generateText's output when the model returned nothing
NoExtract == [data |-> Str(<<"n", "u", "l", "l">>), confidence |-> -1]

\* mutant: the data is returned as the model gave it
ExtractResult_Raw(output) == output

\* try { return {...output, data: JSON.parse(output.data)} } catch { return output }
ExtractResult(output) ==
    LET r == JSONparse(output.data.v)
    IN IF r.ok THEN [output EXCEPT !.data = r.val] ELSE output

ExtractCall(p) ==
    /\ inv[p].pc \in {"idle", "returned", "threw"}
    /\ inv' = [inv EXCEPT ![p] = [IdleInv EXCEPT !.op = "extract", !.pc = "stabilize"]]
    /\ UNCHANGED <<page, marker, mgr, hnd>>

\* page.evaluate(() => document.body.innerText), cut to 15,000 characters
Content(p) ==
    /\ inv[p].pc = "content"
    /\ inv' = [inv EXCEPT ![p].pc = "generate",
                          ![p].content = Min(innerText(page, 1), CONTENT_SLICE)]
    /\ UNCHANGED <<page, marker, mgr, hnd>>

\* generateText, the null test, then the parse
Generate(p) ==
    /\ inv[p].pc = "generate"
    /\ \/ \E chars \in DataStrings : \E c \in Confidences :
             LET out == ExtractOutput(chars, c)
             IN inv' = [inv EXCEPT ![p].pc = "returned", ![p].output = out,
                                   ![p].result = ExtractResult(out)]
       \/ inv' = [inv EXCEPT ![p].pc = "threw", ![p].output = NoExtract,
                             ![p].error = NoOutputMessage]
    /\ UNCHANGED <<page, marker, mgr, hnd>>

\* generateText rejects
GenerateFails(p) ==
    /\ inv[p].pc = "generate"
    /\ inv' = [inv EXCEPT ![p].pc = "threw", ![p].output = NoExtract,
                          ![p].error = ModelFailure]
    /\ UNCHANGED <<page, marker, mgr, hnd>>

InitExtract ==
    /\ page \in ActDocs
    /\ marker = [i \in 1..NumElems(page) |-> NoId]
    /\ inv = [p \in Procs |-> IdleInv]
    /\ mgr = NewManager(FALSE, NoOverride)
    /\ hnd = [p \in Procs |-> IdleHandler]

NextExtract ==
    \/ ExtractCall(1)
    \/ Stabilize(1)
    \/ Content(1)
    \/ Generate(1)
    \/ GenerateFails(1)

SpecExtract == InitExtract /\ [][NextExtract]_vars

(***************************************************************************)
(* SmartBrowser.observe: waitForStable, getPageMap, screenshot, then the   *)
(* model suggests instructions.  The output is returned as it is.          *)
(***************************************************************************)
Suggestion(observations) == [null |-> FALSE, observations |-> observations]

\* generateText's output when the model returned nothing
NoSuggestion == [null |-> TRUE, observations |-> << >>]

Suggestions == {Suggestion(<< >>), Suggestion(<<"click the link">>)}

ObserveCall(p) ==
    /\ inv[p].pc \in {"idle", "returned", "threw"}
    /\ inv' = [inv EXCEPT ![p] = [IdleInv EXCEPT !.op = "observe", !.pc = "stabilize"]]
    /\ UNCHANGED <<page, marker, mgr, hnd>>

\* generateText, then return output
Suggest(p) ==
    /\ inv[p].pc = "suggest"
    /\ \E out \in Suggestions \cup {NoSuggestion} :
          inv' = [inv EXCEPT ![p].pc = "returned", ![p].output = out,
                             ![p].result = out,
                             ![p].decides = Append(@, DecideCall(inv[p], out, FALSE))]
    /\ UNCHANGED <<page, marker, mgr, hnd>>

\* generateText rejects
SuggestFails(p) ==
    /\ inv[p].pc = "suggest"
    /\ inv' = [inv EXCEPT ![p].pc = "threw", ![p].error = ModelFailure,
                          ![p].decides = Append(@, DecideCall(inv[p], NoSuggestion, TRUE))]
    /\ UNCHANGED <<page, marker, mgr, hnd>>

(***************************************************************************)
(* The handlers of action:browser_act, action:browser_extract and          *)
(* action:browser_observe.  Each yields a status event, acquires the page, *)
(* runs its operation (the steps above, as invocation p), and yields its   *)
(* events and one action:taskResult.                                       *)
(***************************************************************************)
Tools == {"browser_act", "browser_extract", "browser_observe"}

OpOf(tool) ==
    IF tool = "browser_act" THEN "act"
    ELSE IF tool = "browser_extract" THEN "extract" ELSE "observe"

Status(message) == [type |-> "browser:status", message |-> message]

StateUpdate(screenshot) == [type |-> "browser:state-update", screenshot |-> screenshot]

\* actionResult(action, toolCallId, data)
actionResult(action, success, error, res) ==
    [type |-> "action:taskResult", action |-> action,
     result |-> [success |-> success, error |-> error, res |-> res]]

\* the first yield of a handler
Announcement(tool) ==
    IF tool = "browser_act" THEN "Performing"
    ELSE IF tool = "browser_extract" THEN "Extracting" ELSE "Observing page"

\* the status a handler yields after its operation returned
Report(tool, res) ==
    IF tool = "browser_act" THEN << >>
    ELSE IF tool = "browser_extract" THEN <<Status("Extracted")>>
    ELSE IF res.null THEN <<Status("Observations")>>
    ELSE <<Status("Possible actions")>>

\* yieldState: page.title() may throw, which is caught and logged and yields
\* nothing; a failed screenshot is left out of the event
YieldOutcomes == {"failed", "image", "no image"}

yieldState(y, wantScreenshot) ==
    IF y = "failed" THEN << >>
    ELSE <<StateUpdate(wantScreenshot /\ y = "image")>>

\* mutant: the result of a failed operation is reported as a success
Failure_AsSuccess(tool, message) == <<actionResult(tool, TRUE, "", message)>>

\* catch (error) { yield actionResult(tool, toolCallId, {error: error.message}) }
Failure(tool, message) == <<actionResult(tool, FALSE, message, "")>>

\* yield actionResult(tool, toolCallId, {success: true, ...res})
Success(tool, res) == <<actionResult(tool, TRUE, "", res)>>

\* the operation of handler p has been called and has not returned or thrown
InFlight(p) == hnd[p].pc = "running" /\ inv[p].pc \notin {"returned", "threw"}

Receive(p, tool) ==
    /\ hnd[p].pc \in {"idle", "done"}
    /\ hnd' = [hnd EXCEPT ![p] = [IdleHandler EXCEPT !.tool = tool, !.pc = "acquire",
                                     !.events = <<Status(Announcement(tool))>>]]
    /\ UNCHANGED <<page, marker, inv, mgr>>

\* const page = await manager.ensurePage(); then the operation is called
Acquire(p) ==
    /\ hnd[p].pc = "acquire"
    /\ \E ok \in BOOLEAN : \E msg \in IF ok THEN {""} ELSE Errors :
          LET r == ensurePage(mgr, NoOverride, [LaunchWorks EXCEPT !.ok = ok])
          IN /\ r.threw = ~ok
             /\ r.m.launched <= MaxLaunches
             /\ mgr' = r.m
             /\ IF r.threw
                THEN /\ hnd' = [hnd EXCEPT ![p].pc = "done", ![p].caught = msg,
                                           ![p].events = @ \o Failure(hnd[p].tool, msg)]
                     /\ UNCHANGED inv
                ELSE /\ hnd' = [q \in Procs |->
                               IF q = p
                               THEN [hnd[q] EXCEPT !.pc = "running",
                                       !.overlapped = \E o \in Procs \ {p} : InFlight(o)]
                               ELSE IF InFlight(q)
                               THEN [hnd[q] EXCEPT !.overlapped = TRUE]
                               ELSE hnd[q]]
                     /\ inv' = [inv EXCEPT ![p] =
                                  [IdleInv EXCEPT !.op = OpOf(hnd[p].tool),
                                                  !.pc = "stabilize"]]
    /\ UNCHANGED <<page, marker>>

\* the operation returned (const res = await smart.act(...)): the report,
\* yieldState, the task result
Finish(p) ==
    /\ hnd[p].pc = "running"
    /\ inv[p].pc = "returned"
    /\ \E y \in YieldOutcomes :
          hnd' = [hnd EXCEPT ![p].pc = "done", ![p].returned = TRUE,
                             ![p].res = inv[p].result, ![p].yielded = y,
                             ![p].events = @ \o Report(hnd[p].tool, inv[p].result)
                                 \o yieldState(y, hnd[p].tool # "browser_extract")
                                 \o Success(hnd[p].tool, inv[p].result)]
    /\ inv' = [inv EXCEPT ![p] = IdleInv]
    /\ UNCHANGED <<page, marker, mgr>>

\* the operation threw: the catch of the handler
Fail(p) ==
    /\ hnd[p].pc = "running"
    /\ inv[p].pc = "threw"
    /\ hnd' = [hnd EXCEPT ![p].pc = "done", ![p].caught = inv[p].error,
                          ![p].events = @ \o Failure(hnd[p].tool, inv[p].error)]
    /\ inv' = [inv EXCEPT ![p] = IdleInv]
    /\ UNCHANGED <<page, marker, mgr>>

InitHandler ==
    /\ page \in ActDocs
    /\ marker = [i \in 1..NumElems(page) |-> NoId]
    /\ inv = [p \in Procs |-> IdleInv]
    /\ mgr = NewManager(FALSE, NoOverride)
    /\ hnd = [p \in Procs |-> IdleHandler]

NextHandler ==
    \/ \E tool \in Tools : Receive(1, tool)
    \/ Acquire(1)
    \/ Stabilize(1)
    \/ Screenshot(1)
    \/ Inject(1)
    \/ Build(1)
    \/ Decide(1)
    \/ DecideFails(1)
    \/ Execute(1)
    \/ Content(1)
    \/ Generate(1)
    \/ GenerateFails(1)
    \/ Suggest(1)
    \/ SuggestFails(1)
    \/ Finish(1)
    \/ Fail(1)

SpecHandler == InitHandler /\ [][NextHandler]_vars

(***************************************************************************)
(* The BrowserManager under any sequence of its operations, one call at a  *)
(* time.                                                                   *)
(***************************************************************************)
EnsureBrowser(o, w) ==
    /\ LET r == ensureBrowser(mgr, o, w)
       IN /\ r.m.launched <= MaxLaunches
          /\ mgr' = r.m
    /\ UNCHANGED <<page, marker, inv, hnd>>

EnsurePage(o, w) ==
    /\ Len(mgr.acquired) < MaxAcquires
    /\ LET r == ensurePage(mgr, o, w)
       IN /\ r.m.launched <= MaxLaunches
          /\ mgr' = IF r.threw THEN r.m
                    ELSE [r.m EXCEPT !.acquired = Append(@, Acquired(r.m))]
    /\ UNCHANGED <<page, marker, inv, hnd>>

Relaunch(headless, w) ==
    /\ LET r == relaunch(mgr, headless, w)
       IN /\ r.m.launched <= MaxLaunches
          /\ mgr' = r.m
    /\ UNCHANGED <<page, marker, inv, hnd>>

Cleanup ==
    /\ mgr' = cleanup(mgr)
    /\ UNCHANGED <<page, marker, inv, hnd>>

InitMgr ==
    /\ page \in ActDocs
    /\ marker = [i \in 1..NumElems(page) |-> NoId]
    /\ inv = [p \in Procs |-> IdleInv]
    /\ \E userDataDir \in BOOLEAN : \E headlessOption \in Overrides :
          mgr = NewManager(userDataDir, headlessOption)
    /\ hnd = [p \in Procs |-> IdleHandler]

NextMgr ==
    \/ \E o \in Overrides : \E w \in LaunchOutcomes : EnsureBrowser(o, w)
    \/ \E o \in Overrides : \E w \in LaunchOutcomes : EnsurePage(o, w)
    \/ \E headless \in BOOLEAN : \E w \in LaunchOutcomes : Relaunch(headless, w)
    \/ Cleanup

SpecMgr == InitMgr /\ [][NextMgr]_vars

(***************************************************************************)
(* Two browser_act handlers on the same page, their steps interleaved: the *)
(* handlers share the manager's first page and nothing orders their        *)
(* awaits.  The choices outside the race are fixed (RaceBound): the model  *)
(* answers "click 0" or "done", the waits resolve, a throw has one         *)
(* message.                                                                *)
(***************************************************************************)
RaceOutputs ==
    {Decision("click", 0, "", "", "", "", "r1"), Decision("done", NoId, "", "", "", "", "r1")}

RaceBound ==
    \A p \in Procs :
       /\ hnd[p].tool \in {"", "browser_act"}
       /\ hnd[p].caught \in {"", "e1"}
       /\ hnd[p].yielded \in {"", "image"}
       /\ inv[p].waits \in {<< >>, waitForStable(<<TRUE, TRUE, TRUE>>)}
       /\ ~inv[p].screenshot
       /\ \A i \in 1..Len(inv[p].decides) :
             inv[p].decides[i].output \in RaceOutputs /\ ~inv[p].decides[i].rejected
       /\ \A i \in 1..Len(inv[p].prims) : inv[p].prims[i].error \in {"", "e1"}

InitRace ==
    /\ page \in ActDocs
    /\ marker = [i \in 1..NumElems(page) |-> NoId]
    /\ inv = [p \in Procs |-> IdleInv]
    /\ mgr = NewManager(FALSE, NoOverride)
    /\ hnd = [p \in Procs |-> IdleHandler]

NextRace ==
    \E p \in Procs :
       \/ Receive(p, "browser_act") /\ RaceBound'
       \/ Acquire(p) /\ RaceBound'
       \/ Stabilize(p) /\ RaceBound'
       \/ Screenshot(p) /\ RaceBound'
       \/ Inject(p) /\ RaceBound'
       \/ Build(p) /\ RaceBound'
       \/ Decide(p) /\ RaceBound'
       \/ Execute(p) /\ RaceBound'
       \/ Finish(p) /\ RaceBound'
       \/ Fail(p) /\ RaceBound'

SpecRace == InitRace /\ [][NextRace]_vars

(***************************************************************************)
(* Reading a page map.                                                     *)
(***************************************************************************)
\* the nodes of a forest, each before its children (halves bound the depth)
RECURSIVE ForestNodes(_, _, _)
ForestNodes(f, lo, hi) ==
    IF lo > hi THEN << >>
    ELSE IF lo = hi
         THEN <<f[lo]>> \o ForestNodes(f[lo].children, 1, Len(f[lo].children))
    ELSE LET mid == (lo + hi) \div 2
         IN ForestNodes(f, lo, mid) \o ForestNodes(f, mid + 1, hi)

BucketNames(pm) == DOMAIN pm.sections

\* the nodes of bucket s of page map pm
BucketNodes(pm, s) == ForestNodes(pm.sections[s], 1, Len(pm.sections[s]))

\* every node of the page map, as <<section, node>> pairs
RECURSIVE AllNodesFrom(_, _)
AllNodesFrom(pm, names) ==
    IF names = {} THEN << >>
    ELSE LET s == CHOOSE x \in names : TRUE
             ns == BucketNodes(pm, s)
         IN [i \in 1..Len(ns) |-> <<s, ns[i]>>] \o AllNodesFrom(pm, names \ {s})

AllNodes(pm) == AllNodesFrom(pm, BucketNames(pm))


(***************************************************************************)
(* C1: in one act() call, when the primitive of the first attempt throws,  *)
(* the whole cycle (stabilize, snapshot, decide, execute) is run once more *)
(* and the second decision call gets the first attempt's error message as  *)
(* context; when the second primitive throws too, that error propagates    *)
(* and there is no third attempt.  The decider is called a second time     *)
(* only after the first primitive threw, and never more than twice.        *)
(***************************************************************************)
Ended(c) == c.pc \in {"returned", "threw"}

C1_RetryOnce ==
    LET c == inv[1]
        D == c.decides
        P == c.prims
    IN c.op = "act" =>
        /\ Len(D) <= 2 /\ Len(P) <= 2 /\ c.stabs <= 2 /\ c.snaps <= 2
        /\ Len(D) >= 1 => D[1].context = "" /\ D[1].stabs = 1 /\ D[1].snaps = 1
        /\ Len(D) = 2 =>
              /\ Len(P) >= 1 /\ ~P[1].ok
              /\ D[2].context = P[1].error
              /\ D[2].stabs = 2 /\ D[2].snaps = 2
        /\ (Len(P) >= 1 /\ ~P[1].ok) =>
              /\ c.pc # "idle" /\ c.retry = 1 /\ c.lastError = P[1].error
              /\ Ended(c) => Len(D) = 2
        /\ Len(P) = 2 => P[2].attempt = 2 /\ P[2].snaps = 2
        /\ (Len(P) = 2 /\ ~P[2].ok) => c.pc = "threw" /\ c.error = P[2].error

\* both primitives threw, with different messages: the first went to the
\* second decision, the second to the caller
C1_Witness ==
    LET c == inv[1]
    IN /\ c.pc = "threw" /\ Len(c.prims) = 2 /\ Len(c.decides) = 2
       /\ c.prims[1].error # c.prims[2].error
       /\ c.decides[2].context = c.prims[1].error
       /\ c.error = c.prims[2].error

(***************************************************************************)
(* C2: when the decision omits a field its action requires, act() fails    *)
(* with MissingActionParameter before any primitive is dispatched: no      *)
(* locator lookup, click, fill, key press or navigation is made.           *)
(***************************************************************************)
C2_MissingParameterRejected ==
    LET c == inv[1]
    IN /\ \A i \in 1..Len(c.prims) : ~MissingParameter(c.prims[i].output)
       /\ (Ended(c) /\ \E i \in 1..Len(c.decides) : MissingParameter(c.decides[i].output))
             => c.pc = "threw" /\ c.error = "MissingActionParameter"

(***************************************************************************)
(* C3: when the decision is "done", on the first attempt or on the retry,  *)
(* act() returns success with the model's reasoning and no primitive is    *)
(* invoked in that attempt.                                                *)
(***************************************************************************)
C3_DoneReturnsSuccess ==
    LET c == inv[1]
    IN \A i \in 1..Len(c.decides) :
          c.decides[i].output.action = "done" =>
             /\ i = Len(c.decides)
             /\ c.pc = "returned"
             /\ c.result.success /\ c.result.message = c.decides[i].output.reasoning
             /\ c.result.action = ""
             /\ \A j \in 1..Len(c.prims) : c.prims[j].attempt # c.decides[i].attempt

\* "done" on the retry attempt
C3_Witness ==
    LET c == inv[1]
    IN /\ Len(c.decides) = 2 /\ c.decides[2].output.action = "done"
       /\ c.pc = "returned" /\ c.result.message = "r2"

(***************************************************************************)
(* C4: one act() call completes at most one primitive: when the primitive  *)
(* of the first attempt succeeds, act() returns {action, reasoning} of     *)
(* that decision and there is no further stabilization, snapshot, decision *)
(* call or primitive in the call.                                          *)
(***************************************************************************)
C4_SuccessEndsCall ==
    LET c == inv[1]
        P == c.prims
    IN /\ Cardinality({i \in 1..Len(P) : P[i].ok}) <= 1
       /\ (Len(P) >= 1 /\ P[1].ok) =>
             /\ c.pc = "returned"
             /\ c.result.action = P[1].output.action
             /\ c.result.reasoning = P[1].output.reasoning
             /\ c.result.reasoning = c.decides[1].output.reasoning
             /\ c.stabs = 1 /\ c.snaps = 1 /\ c.retry = 0
             /\ Len(c.decides) = 1 /\ Len(P) = 1

\* the click of element 1 succeeded on the first attempt
C4_Witness ==
    LET c == inv[1]
    IN /\ c.pc = "returned" /\ Len(c.prims) = 1 /\ c.prims[1].ok
       /\ c.result.action = "click" /\ c.prims[1].output.elementId = 1
       /\ c.prims[1].steps = <<"locate", "scrollIntoView", "click">>

(***************************************************************************)
(* C5: the number of materialized nodes (the running count, equal to the   *)
(* number of nodes in all buckets together) never exceeds MAX_NODES and no *)
(* materialized node lies deeper than MAX_DEPTH, at every return of        *)
(* buildTree.                                                              *)
(***************************************************************************)
C5_NodeAndDepthCaps ==
    Built =>
        /\ pageMap.count = Len(AllNodes(pageMap))
        /\ \A i \in 1..Len(pageMap.log) :
              /\ pageMap.log[i].count <= MAX_NODES
              /\ pageMap.log[i].out \in {"node", "bucket"}
                    => pageMap.log[i].depth <= MAX_DEPTH

\* the half of C5 the code keeps: the count is the number of nodes of the
\* buckets and no node is deeper than MAX_DEPTH
C5_DepthCapOnly ==
    Built =>
        /\ pageMap.count = Len(AllNodes(pageMap))
        /\ LET ns == AllNodes(pageMap)
           IN \A i \in 1..Len(ns) : ns[i][2].depth <= MAX_DEPTH

\* how far past MAX_NODES the count can get in these documents
C5_CountOvershoot == Built => pageMap.count <= MAX_NODES + 2

(***************************************************************************)
(* C6: when getPageMap returns, no two nodes of the page map carry the     *)
(* same interaction identifier and no two elements of the document carry   *)
(* the same data-melony-id marker.                                         *)
(***************************************************************************)
UniqueNodeIds(pm) ==
    LET ns == AllNodes(pm)
    IN \A i, j \in 1..Len(ns) :
          (i # j /\ ns[i][2].id # NoId) => ns[i][2].id # ns[j][2].id

UniqueMarkers(mk) ==
    \A i, j \in DOMAIN mk : (i # j /\ mk[i] # NoId) => mk[i] # mk[j]

C6_UniqueIds == Built => UniqueNodeIds(pageMap) /\ UniqueMarkers(marker)

\* a page map with two identified nodes, of a document in which an element
\* that matches the selector got no identifier
C6_Witness ==
    /\ Built
    /\ \E i, j \in 1..Len(AllNodes(pageMap)) :
          AllNodes(pageMap)[i][2].id = 0 /\ AllNodes(pageMap)[j][2].id = 1
    /\ \E e \in 1..NumElems(page) : MatchesSelector(page, e) /\ marker[e] = NoId

(***************************************************************************)
(* The document side of a page map.                                        *)
(***************************************************************************)
RECURSIVE DepthOf(_, _)
DepthOf(d, e) == IF d.par[e] = 0 THEN 0 ELSE 1 + DepthOf(d, d.par[e])

\* the section classification buildTree computes for element e
ClassOf(d, e) == SectionAt(d.els[e], DepthOf(d, e))

\* the nearest ancestor of e with a section classification, 0 when none
RECURSIVE ClassifiedFrom(_, _)
ClassifiedFrom(d, a) ==
    IF a = 0 THEN 0 ELSE IF ClassOf(d, a) # "" THEN a ELSE ClassifiedFrom(d, d.par[a])
NearestClassified(d, e) == ClassifiedFrom(d, d.par[e])

\* the elements buildTree materialized (count++), from the log
Materialized(pm) ==
    {pm.log[i].el : i \in {j \in 1..Len(pm.log) : pm.log[j].out \in {"node", "bucket"}}}

\* the number of places of the page map at which element e appears
Places(ns, e) == Cardinality({i \in 1..Len(ns) : ns[i][2].el = e})

\* element e is one of the nodes pushed into bucket s
TopLevel(pm, s, e) ==
    s \in BucketNames(pm) /\ \E i \in 1..Len(pm.sections[s]) : pm.sections[s][i].el = e

\* element e is a node of the subtree of top-level node a of bucket s
Under(pm, s, a, e) ==
    /\ s \in BucketNames(pm)
    /\ \E i \in 1..Len(pm.sections[s]) :
          /\ pm.sections[s][i].el = a
          /\ \E n \in {ForestNodes(<<pm.sections[s][i]>>, 1, 1)[j] :
                          j \in 1..Len(ForestNodes(<<pm.sections[s][i]>>, 1, 1))} : n.el = e

(***************************************************************************)
(* C7: every materialized node appears at exactly one place of the page    *)
(* map: the node of an element with a section classification is one of the *)
(* nodes pushed into that section's bucket (also when an ancestor is       *)
(* classified); the node of an element without one is in the subtree of    *)
(* the node of its nearest classified ancestor, or in the bucket `other`   *)
(* when it has none.                                                       *)
(***************************************************************************)
C7_OnePlace ==
    Built =>
        LET ns == AllNodes(pageMap)
        IN /\ {ns[i][2].el : i \in 1..Len(ns)} = Materialized(pageMap)
           /\ \A e \in Materialized(pageMap) :
                 /\ Places(ns, e) = 1
                 /\ ClassOf(page, e) # "" => TopLevel(pageMap, ClassOf(page, e), e)
                 /\ ClassOf(page, e) = "" =>
                       LET a == NearestClassified(page, e)
                       IN IF a = 0
                          THEN \E i \in 1..Len(ns) : ns[i][1] = "other" /\ ns[i][2].el = e
                          ELSE Under(pageMap, ClassOf(page, a), a, e)

\* a materialized classified element inside an element of another section,
\* with a materialized child that has no classification
C7_Witness ==
    /\ Built
    /\ \E e3 \in Materialized(pageMap) :
          LET e2 == page.par[e3]
              e1 == IF e2 = 0 THEN 0 ELSE page.par[e2]
          IN /\ e1 # 0
             /\ e2 \in Materialized(pageMap)
             /\ ClassOf(page, e1) # "" /\ ClassOf(page, e2) # ""
             /\ ClassOf(page, e1) # ClassOf(page, e2)
             /\ ClassOf(page, e3) = ""

(***************************************************************************)
(* C8: no page map holds a node with no children, no text, no role, no     *)
(* label and no interaction identifier, whatever its tag.                  *)
(***************************************************************************)
EmptyNode(n) ==
    Len(n.children) = 0 /\ n.text = 0 /\ n.role = "" /\ ~n.label /\ n.id = NoId

C8_NoEmptyNode ==
    Built => LET ns == AllNodes(pageMap)
             IN \A i \in 1..Len(ns) : ~EmptyNode(ns[i][2])

\* what the code keeps of C8: an empty node is a heading
C8_EmptyOnlyHeading ==
    Built => LET ns == AllNodes(pageMap)
             IN \A i \in 1..Len(ns) : EmptyNode(ns[i][2]) => ns[i][2].tag \in HeadingTags

(***************************************************************************)
(* C9: every element with exactly one surviving child, no direct text, no  *)
(* role and no section classification is not materialized: the call        *)
(* returns the surviving child in its place and does not increment count.  *)
(***************************************************************************)
Wrapper(c) ==
    Len(c.children) = 1 /\ c.text = 0 /\ c.role = "" /\ c.section = ""

FlattenedAway(pm, c) ==
    /\ c.out = "flat"
    /\ c.ret = c.children
    /\ c.count = c.countIn
    /\ c.el \notin Materialized(pm)
    /\ Places(AllNodes(pm), c.el) = 0
    /\ Places(AllNodes(pm), c.children[1].el) = 1

RoleBucket(pm, n, role, bucket) == n.role = role => TopLevel(pm, bucket, n.el)

\* C10 as stated
C10_RoleDecidesBucket ==
    Built => LET ns == AllNodes(pageMap)
             IN \A i \in 1..Len(ns) :
                   /\ RoleBucket(pageMap, ns[i][2], "banner", "header")
                   /\ RoleBucket(pageMap, ns[i][2], "contentinfo", "footer")
                   /\ RoleBucket(pageMap, ns[i][2], "navigation", "navigation")

\* C10 above SECTION_DEPTH and with the tags that are tested first set aside
C10_RoleDecidesBucketAbove ==
    Built => LET ns == AllNodes(pageMap)
             IN \A i \in 1..Len(ns) :
                   ns[i][2].depth < SECTION_DEPTH =>
                      /\ RoleBucket(pageMap, ns[i][2], "banner", "header")
                      /\ ns[i][2].tag # "HEADER"
                            => RoleBucket(pageMap, ns[i][2], "contentinfo", "footer")
                      /\ ns[i][2].tag \notin {"HEADER", "FOOTER"}
                            => RoleBucket(pageMap, ns[i][2], "navigation", "navigation")

\* a FOOTER with role "banner" at the last classified depth, in the header bucket
C10_Witness ==
    /\ Built
    /\ \E i \in 1..Len(AllNodes(pageMap)) :
          LET n == AllNodes(pageMap)[i][2]
          IN /\ n.role = "banner" /\ n.tag = "FOOTER" /\ n.depth = SECTION_DEPTH - 1
             /\ TopLevel(pageMap, "header", n.el)

(***************************************************************************)
(* C11: extract() never fails because the model's data string does not     *)
(* parse: when the string parses as JSON the result's data is the parsed   *)
(* value, otherwise it is the string unchanged; the confidence is the      *)
(* model's in both cases.                                                  *)
(***************************************************************************)
C11_ParseOrRaw ==
    LET c == inv[1]
    IN c.op = "extract" =>
        /\ c.pc = "threw" => c.output = NoExtract
        /\ c.pc = "returned" =>
              /\ c.result.confidence = c.output.confidence
              /\ JSONparse(c.output.data.v).ok =>
                    /\ c.result.data = JSONparse(c.output.data.v).val
                    /\ c.result.data.t # "str"
              /\ ~JSONparse(c.output.data.v).ok => c.result.data = c.output.data

\* " [1" does not parse and comes back as it is; "[1,1]" comes back as an array
C11_Witness ==
    LET c == inv[1]
    IN /\ c.op = "extract" /\ c.pc = "returned"
       /\ c.output.data.v = <<" ", "[", "1">>
       /\ c.result.data = Str(<<" ", "[", "1">>)
       /\ c.result.confidence = 1
       /\ JSONparse(<<"[", "1", ",", "1", "]">>).val = Arr(<<Num(1), Num(1)>>)
       /\ JSONparse(<<" ", "1", "1", " ">>).val = Num(11)
       /\ ~JSONparse(<<"1", " ", "1">>).ok
       /\ ~JSONparse(<< >>).ok

(***************************************************************************)
(* C12: a browser_act event produces exactly one action:taskResult, the    *)
(* last event of the handler, and no fault escapes: when act() or the page *)
(* acquisition failed the result carries the error's message and no        *)
(* success flag; when act() returned the result carries success, also when *)
(* the state update failed.                                                *)
(***************************************************************************)
TaskResults(h) == {i \in 1..Len(h.events) : h.events[i].type = "action:taskResult"}

C12_OneTaskResult ==
    LET h == hnd[1]
        n == Len(h.events)
    IN h.tool = "browser_act" =>
        /\ h.pc # "done" => TaskResults(h) = {}
        /\ h.pc = "done" =>
              /\ TaskResults(h) = {n}
              /\ h.events[n].action = "browser_act"
              /\ h.returned =>
                    /\ h.events[n].result.success
                    /\ h.events[n].result.error = ""
                    /\ h.events[n].result.res = h.res
                    /\ h.caught = ""
              /\ ~h.returned =>
                    /\ ~h.events[n].result.success
                    /\ h.events[n].result.error = h.caught
                    /\ h.caught \in Errors \cup {NoOutputMessage, ModelFailure}
        /\ (h.pc = "running" /\ inv[1].pc = "threw") =>
              inv[1].error \in Errors \cup {NoOutputMessage, ModelFailure}

\* act() clicked, the state update failed, the result is still a success
C12_Witness ==
    LET h == hnd[1]
    IN /\ h.tool = "browser_act" /\ h.pc = "done" /\ h.returned
       /\ h.yielded = "failed" /\ h.res.action = "click"
       /\ Len(h.events) = 2
       /\ h.events[2].result.success

(***************************************************************************)
(* C13: when the inference call returns nothing the operation fails: act   *)
(* throws without running a primitive in that attempt and without a retry, *)
(* extract throws, observe throws; the handler's task result is never a    *)
(* success.                                                                *)
(***************************************************************************)
C13_NoOutputFails ==
    LET c == inv[1]
        h == hnd[1]
    IN /\ c.op = "act" =>
            \A i \in 1..Len(c.decides) :
               (c.decides[i].output = NullOutput /\ ~c.decides[i].rejected) =>
                  /\ i = Len(c.decides)
                  /\ c.pc = "threw" /\ c.error = NoOutputMessage
                  /\ \A j \in 1..Len(c.prims) : c.prims[j].attempt < i
       /\ (c.op = "extract" /\ c.output = NoExtract) => c.pc = "threw"
       /\ (c.op = "observe" /\ Len(c.decides) = 1 /\ c.decides[1].output = NoSuggestion)
             => c.pc = "threw"
       /\ (h.tool = "browser_observe" /\ h.pc = "done" /\ h.returned) => ~h.res.null

\* the parts of C13 that hold: act and extract
C13_ActAndExtractFail ==
    LET c == inv[1]
    IN /\ c.op = "act" =>
            \A i \in 1..Len(c.decides) :
               (c.decides[i].output = NullOutput /\ ~c.decides[i].rejected) =>
                  /\ i = Len(c.decides)
                  /\ c.pc = "threw" /\ c.error = NoOutputMessage
                  /\ \A j \in 1..Len(c.prims) : c.prims[j].attempt < i
       /\ (c.op = "extract" /\ c.output = NoExtract) => c.pc = "threw"

(***************************************************************************)
(* C14: ensurePage is idempotent: once it has returned a page, every later *)
(* call with no cleanup in between returns that page and launches no       *)
(* browser, context or page, with and without a persistent profile.        *)
(***************************************************************************)
SameAcquisitions(m) ==
    \A i \in 1..Len(m.acquired) : \A j \in i..Len(m.acquired) :
       m.acquired[j] = m.acquired[i]

C14_EnsurePageIdempotent == SameAcquisitions(mgr)

\* the part of C14 that holds: without a persistent profile
C14_IdempotentWithoutProfile == ~mgr.userDataDir => SameAcquisitions(mgr)

(***************************************************************************)
(* C15: after cleanup returns nothing the manager launched is open, and at *)
(* most one browser is open at any time.                                   *)
(***************************************************************************)
Released(m) == m.browser = 0 /\ m.context = 0

C15_CleanupClosesAll ==
    /\ Cardinality(mgr.browsers) <= 1
    /\ Released(mgr) =>
          mgr.browsers = {} /\ mgr.contexts = {} /\ mgr.livePages = {}

\* the part of C15 that holds: without a persistent profile the contexts and
\* pages of a released manager are closed (its browsers are not)
C15_ContextsClosed ==
    (~mgr.userDataDir /\ Released(mgr)) => mgr.contexts = {} /\ mgr.livePages = {}

(***************************************************************************)
(* C16: within one act() call each attempt runs in the order wait,         *)
(* snapshot (re-scan and tree build), decision, primitive: the decision of *)
(* attempt i is made after i waits and i snapshots, on the snapshot of the *)
(* page as it then is; the primitive of attempt i executes the decision of *)
(* attempt i with the markers of the re-scan of attempt i; the retry       *)
(* builds its own snapshot.                                                *)
(***************************************************************************)
C16_AttemptOrder ==
    LET c == inv[1]
        D == c.decides
        P == c.prims
        k == c.retry + 1
    IN c.op = "act" =>
        /\ c.pc = "stabilize" => c.stabs = k - 1 /\ c.snaps = k - 1
        /\ c.pc \in {"screenshot", "inject", "build"} => c.stabs = k /\ c.snaps = k - 1
        /\ c.pc = "build" => c.scanned = k
        /\ c.pc \in {"decide", "execute"} =>
              /\ c.stabs = k /\ c.snaps = k /\ c.scanned = k
              /\ c.state = PageMapOf(page, marker)
              /\ Len(P) = k - 1
        /\ c.pc = "decide" => Len(D) = k - 1
        /\ c.pc = "execute" =>
              /\ Len(D) = k
              /\ D[k].output = c.output
              /\ D[k].dom = c.state.sections
        /\ \A i \in 1..Len(D) : D[i].attempt = i /\ D[i].stabs = i /\ D[i].snaps = i
        /\ \A i \in 1..Len(P) :
              /\ Len(D) >= i
              /\ P[i].attempt = i /\ P[i].snaps = i /\ P[i].generation = i
              /\ P[i].output = D[i].output

\* the failed click of attempt 1 loaded another document; attempt 2 decided on
\* a snapshot of that document and clicked
C16_Witness ==
    LET c == inv[1]
    IN /\ c.op = "act" /\ Len(c.decides) = 2 /\ Len(c.prims) = 2
       /\ c.decides[2].dom # c.decides[1].dom
       /\ c.prims[2].steps = <<"locate", "scrollIntoView", "click">>
       /\ c.prims[2].generation = 2

(***************************************************************************)
(* C17: nothing orders the steps of two act() invocations on one page.  An *)
(* invocation that overlapped with no other executes every click/type with *)
(* the markers its own re-scan of that attempt assigned; with two in       *)
(* flight, one can re-scan between the other's snapshot and its click, and *)
(* that click then runs against markers of a generation its snapshot does  *)
(* not describe.                                                           *)
(***************************************************************************)
Superseded(q) == q.generation # q.attempt

C17_StaleOnlyWhenOverlapping ==
    \A p \in Procs :
       hnd[p].pc = "running" =>
          \A i \in 1..Len(inv[p].prims) :
             Superseded(inv[p].prims[i]) => hnd[p].overlapped

\* invocation 2 decided on a snapshot in which id 0 is a button and clicked
\* the element that invocation 1's later re-scan of a new document marked 0
C17_Witness ==
    /\ hnd[2].pc = "running" /\ hnd[2].overlapped
    /\ Len(inv[2].prims) = 1
    /\ inv[2].prims[1].steps = <<"locate", "scrollIntoView", "click">>
    /\ inv[2].prims[1].ok
    /\ Superseded(inv[2].prims[1])
    /\ LET ns == AllNodes(inv[2].state)
       IN \E i \in 1..Len(ns) :
             /\ ns[i][2].id = inv[2].prims[1].output.elementId
             /\ ns[i][2].tag = "BUTTON"
             /\ ns[i][2].el \notin inv[2].prims[1].target

(***************************************************************************)
(* C18: the soft failures of perception are never fatal.  waitForStable    *)
(* returns whichever of its waits timed out and always ends with the       *)
(* settle sleep: act, observe and extract go on to their next step and     *)
(* throw only at or after the model call.  A failed screenshot does not    *)
(* fail act or observe: the model is then called without an image.         *)
(***************************************************************************)
C18_SoftFailures ==
    LET c == inv[1]
        W == c.waits
        D == c.decides
    IN c.op \in {"act", "observe", "extract"} =>
        /\ c.stabs >= 1 =>
              /\ W[1].wait = "domcontentloaded"
              /\ W[Len(W)] = [wait |-> "settle", ok |-> TRUE]
              /\ Len(W) = IF W[1].ok THEN 4 ELSE 2
        /\ c.pc = "stabilize" => c.stabs = c.retry
        /\ c.pc # "stabilize" => c.stabs = c.retry + 1
        /\ (c.pc = "threw" /\ c.op # "extract") => Len(D) >= 1
        /\ (c.pc = "threw" /\ c.op = "extract") => c.output = NoExtract
        /\ (c.op # "extract" /\ Len(D) = c.retry + 1) => D[Len(D)].image = c.screenshot
        /\ (c.op = "observe" /\ c.pc = "suggest") => Len(D) = 0

\* observe returned suggestions although the first wait timed out and the
\* screenshot failed
C18_Witness ==
    LET c == inv[1]
    IN /\ c.op = "observe" /\ c.pc = "returned"
       /\ c.waits = <<[wait |-> "domcontentloaded", ok |-> FALSE],
                      [wait |-> "settle", ok |-> TRUE]>>
       /\ ~c.screenshot /\ ~c.decides[1].image
       /\ c.result = Suggestion(<<"click the link">>)

(***************************************************************************)
(* C19: after every re-scan, whatever markers earlier re-scans and page    *)
(* changes left, the elements that carry a marker are exactly those that   *)
(* match the selector and whose own computed style is neither display:     *)
(* none nor visibility: hidden, and their identifiers are 0..n-1 in        *)
(* document order.                                                         *)
(***************************************************************************)
Interactable(d) ==
    {e \in 1..NumElems(d) :
        MatchesSelector(d, e) /\ ~DisplayNone(d, e) /\ ~VisibilityHidden(d, e)}

C19_MarkersExact ==
    inv[1].pc \in {"build", "built"} =>
        LET I == Interactable(page)
        IN /\ {e \in 1..NumElems(page) : marker[e] # NoId} = I
           /\ {marker[e] : e \in I} = 0..(Cardinality(I) - 1)
           /\ \A e1, e2 \in I : e1 < e2 => marker[e1] < marker[e2]

\* a snapshot of a page on which a button with display: none has no marker
\* while the button inside it has marker 0 and a later one has marker 1
C19_Witness ==
    /\ Built
    /\ \E e, c, f \in 1..NumElems(page) :
          /\ page.els[e] = E("BUTTON", "", "none") /\ marker[e] = NoId
          /\ page.par[c] = e /\ marker[c] = 0
          /\ f > c /\ marker[f] = 1

(***************************************************************************)
(* C20: within each section bucket the nodes are in the order in which     *)
(* the pre-order walk first encounters their elements (the element index): *)
(* an element encountered before another of the same bucket precedes it,   *)
(* also when the second is a descendant of the first.                      *)
(***************************************************************************)
C20_BucketPreOrder ==
    Built => \A s \in BucketNames(pageMap) :
                \A i, j \in 1..Len(pageMap.sections[s]) :
                    i < j => pageMap.sections[s][i].el < pageMap.sections[s][j].el

\* what the code keeps of C20: the nodes of a bucket are in the order in
\* which their calls return, a descendant before its ancestor and otherwise
\* the earlier element first
C20_BucketReturnOrder ==
    Built => \A s \in BucketNames(pageMap) :
                \A i, j \in 1..Len(pageMap.sections[s]) :
                    LET a == pageMap.sections[s][i].el
                        b == pageMap.sections[s][j].el
                    IN i < j <=> \/ (a # b /\ IsAncestorOrSelf(page, b, a))
                                 \/ (a < b /\ ~IsAncestorOrSelf(page, a, b))

(***************************************************************************)
(* C21: an element with an aria-label or title is never flattened away:    *)
(* also with one surviving child, no direct text, no role and no section   *)
(* it is materialized as a node with its label and that child under it.    *)
(***************************************************************************)
LabelledNode(pm, c) ==
    /\ c.out \in {"node", "bucket"}
    /\ c.el \in Materialized(pm)
    /\ \E i \in 1..Len(AllNodes(pm)) :
          LET n == AllNodes(pm)[i][2]
          IN n.el = c.el /\ n.label /\ n.children = c.children

C21_LabelledNeverFlattened ==
    Built => \A i \in 1..Len(pageMap.log) :
                HasLabel(page, pageMap.log[i].el) => LabelledNode(pageMap, pageMap.log[i])

\* what the code keeps of C21: a labelled element that passed the guards is
\* never pruned, and it is a node with its label unless it is a wrapper that
\* is neither interactive nor a heading
C21_LabelledKeptUnlessWrapper ==
    Built => \A i \in 1..Len(pageMap.log) :
                LET c == pageMap.log[i]
                IN HasLabel(page, c.el) =>
                      /\ c.out # "pruned"
                      /\ IF Wrapper(c) /\ ~c.isInteractive /\ ~c.isHeading
                         THEN FlattenedAway(pageMap, c)
                         ELSE LabelledNode(pageMap, c)

(***************************************************************************)
(* C22: every interaction identifier on a node of a snapshot is the marker *)
(* of exactly one element of the document when the snapshot is returned,   *)
(* the element the node was built from; while the page does not change,    *)
(* clickById / typeById with an identifier of the snapshot find that       *)
(* element.                                                                *)
(***************************************************************************)
C22_IdsLocateOne ==
    Built =>
        LET ns == AllNodes(pageMap)
        IN \A i \in 1..Len(ns) :
              LET n == ns[i][2]
              IN n.id # NoId =>
                    /\ n.el \in 1..NumElems(page)
                    /\ Locate(marker, n.id) = {n.el}
                    /\ \A o \in ById(marker, n.id, "click") \cup ById(marker, n.id, "fill") :
                          o.steps[Len(o.steps)] \in {"click", "fill"}

\* a snapshot of a full document with the identifiers 0 and 1, the
\* second on the last element of a document whose second element matches the
\* selector and has no marker
C22_Witness ==
    /\ Built
    /\ NumElems(page) = MaxMapElems
    /\ MatchesSelector(page, 2) /\ marker[2] = NoId
    /\ \E i, j \in 1..Len(AllNodes(pageMap)) :
          /\ AllNodes(pageMap)[i][2].id = 0
          /\ AllNodes(pageMap)[j][2].id = 1
          /\ AllNodes(pageMap)[j][2].el = MaxMapElems
    /\ Locate(marker, 1) = {MaxMapElems}

(***************************************************************************)
(* The plugin under any sequence of tool events, one handler at a time.    *)
(* Here `page` is the document loaded in the manager's first page, which   *)
(* stands for its URL; a page Playwright has just opened is at about:blank *)
(* (the document of a body alone).  hnd[1] keeps the last event: its tool, *)
(* whether it yielded success, and in res the manager's state before it.   *)
(***************************************************************************)
AboutBlank == SmallDoc(1, <<0>>, << >>)

ShowDocs == ActDocs \cup {AboutBlank}

UseTools == {"browser_act", "browser_extract", "browser_observe", "browser_state_update"}

\* page.url() of the page ensurePage returns: the page the manager already
\* had keeps its document, another page is new
UrlOf(before, after, d) ==
    IF Len(before.pages) > 0 /\ FirstPage(before) = FirstPage(after) THEN d ELSE AboutBlank

\* what the last event's record keeps of the manager before the event
Before(m, d) ==
    [headless |-> m.headless, browser |-> m.browser, context |-> m.context,
     hadPage |-> Len(m.pages) > 0, url |-> d, launched |-> m.launched]

Handled(tool, success, before, message) ==
    [IdleHandler EXCEPT !.tool = tool, !.pc = "done", !.returned = success,
                        !.res = [before |-> before, message |-> message]]

\* the launch outcomes that differ for manager m: browserNull and firstPage
\* are read only after a successful launch of a persistent context
LaunchChoices(m) ==
    {w \in LaunchOutcomes : (~w.ok \/ ~m.userDataDir) => (~w.browserNull /\ ~w.firstPage)}

\* browser_act, browser_extract, browser_observe, browser_state_update:
\* manager.ensurePage(), then the operation; act may load another document
Use(tool, w, d) ==
    LET r == ensurePage(mgr, NoOverride, w)
    IN /\ r.m.launched <= MaxLaunches
       /\ mgr' = r.m
       /\ IF r.threw
          THEN /\ page' = IF Len(r.m.pages) > 0 THEN page ELSE AboutBlank
               /\ d = page'
               /\ hnd' = [hnd EXCEPT ![1] = Handled(tool, FALSE, Before(mgr, page), "")]
          ELSE /\ d # UrlOf(mgr, r.m, page) => tool = "browser_act"
               /\ page' = d
               /\ \E success \in BOOLEAN :
                     hnd' = [hnd EXCEPT ![1] = Handled(tool, success, Before(mgr, page), "")]
    /\ UNCHANGED <<marker, inv>>

\* browser_cleanup
CleanupEvent ==
    /\ mgr' = cleanup(mgr)
    /\ page' = AboutBlank
    /\ hnd' = [hnd EXCEPT ![1] =
                  Handled("browser_cleanup", TRUE, Before(mgr, page), "Browser closed")]
    /\ UNCHANGED <<marker, inv>>

\* mutant: the new page is left where Playwright opened it
ShowGoto_Skipped(url, ok) == AboutBlank

\* if (url) await newPage.goto(url): the document of the new page afterwards
ShowGoto(url, ok) == IF ok THEN url ELSE AboutBlank

\* browser_show: ensurePage; when the manager is headless, relaunch(false),
\* ensurePage(false) and goto(url)
Show(w1, w2, w3, gotoOk) ==
    LET b == Before(mgr, page)
        r1 == ensurePage(mgr, NoOverride, w1)
        url == UrlOf(mgr, r1.m, page)
        r2 == relaunch(r1.m, FALSE, w2)
        r3 == ensurePage(r2.m, <<FALSE>>, w3)
        failed(m, d) ==
            /\ mgr' = m
            /\ page' = d
            /\ hnd' = [hnd EXCEPT ![1] = Handled("browser_show", FALSE, b, "")]
    IN /\ IF r1.threw
          THEN /\ w2 = LaunchWorks /\ w3 = LaunchWorks /\ gotoOk
               /\ failed(r1.m, IF Len(r1.m.pages) > 0 THEN page ELSE AboutBlank)
          ELSE IF ~r1.m.headless
          THEN /\ w2 = LaunchWorks /\ w3 = LaunchWorks /\ gotoOk
               /\ mgr' = r1.m
               /\ page' = url
               /\ hnd' = [hnd EXCEPT ![1] =
                             Handled("browser_show", TRUE, b, "Browser is active")]
          ELSE IF r2.threw
          THEN w3 = LaunchWorks /\ gotoOk /\ failed(r2.m, AboutBlank)
          ELSE IF r3.threw
          THEN gotoOk /\ failed(r3.m, AboutBlank)
          ELSE IF ~gotoOk
          THEN failed(r3.m, ShowGoto(url, FALSE))
          ELSE /\ mgr' = r3.m
               /\ page' = ShowGoto(url, TRUE)
               /\ hnd' = [hnd EXCEPT ![1] =
                             Handled("browser_show", TRUE, b, "Browser opened (headed)")]
       /\ mgr'.launched <= MaxLaunches
    /\ UNCHANGED <<marker, inv>>

InitShow ==
    /\ page = AboutBlank
    /\ marker = [i \in 1..NumElems(page) |-> NoId]
    /\ inv = [p \in Procs |-> IdleInv]
    /\ \E userDataDir \in BOOLEAN : \E headlessOption \in Overrides :
          mgr = NewManager(userDataDir, headlessOption)
    /\ hnd = [p \in Procs |-> IdleHandler]

NextShow ==
    \/ \E tool \in UseTools : \E w \in LaunchChoices(mgr) : \E d \in ShowDocs :
          Use(tool, w, d)
    \/ CleanupEvent
    \/ \E w1, w2, w3 \in LaunchChoices(mgr) : \E gotoOk \in BOOLEAN :
          Show(w1, w2, w3, gotoOk)

SpecShow == InitShow /\ [][NextShow]_vars

(***************************************************************************)
(* C23: over any sequence of tool events, whenever a browser is open the   *)
(* manager's headless flag equals the mode that browser was launched in;   *)
(* after a successful browser_show the open browser is headed and its page *)
(* is at the URL that was open before; a browser_show on an already headed *)
(* browser relaunches nothing.                                             *)
(***************************************************************************)
ShowSucceeded == hnd[1].tool = "browser_show" /\ hnd[1].returned

\* the manager had an open context before the last event
HadBrowser == hnd[1].res.before.context # 0

FlagIsModeOfOpen == \A n \in mgr.browsers : mgr.modes[n] = mgr.headless

ShownHeadedAtUrl ==
    ShowSucceeded =>
        /\ mgr.browsers # {}
        /\ \A n \in mgr.browsers : ~mgr.modes[n]
        /\ hnd[1].res.before.hadPage => page = hnd[1].res.before.url

HeadedNotRelaunched ==
    (ShowSucceeded /\ HadBrowser /\ ~hnd[1].res.before.headless) =>
        mgr.launched = hnd[1].res.before.launched

C23_HeadlessFlagAndShow ==
    FlagIsModeOfOpen /\ ShownHeadedAtUrl /\ HeadedNotRelaunched

\* what the code keeps of C23: the flag is the mode of the manager's current
\* context; when the manager held a browser before a successful browser_show,
\* that context is open and headed, the page is at the URL it had, and an
\* already headed browser is not relaunched
C23_CurrentContextMode ==
    /\ mgr.context # 0 =>
          /\ mgr.context \in mgr.contexts
          /\ mgr.modes[mgr.context] = mgr.headless
    /\ ShowSucceeded =>
          /\ mgr.context # 0 /\ ~mgr.modes[mgr.context]
          /\ hnd[1].res.before.browser # 0 =>
                /\ hnd[1].res.before.hadPage => page = hnd[1].res.before.url
                /\ ~hnd[1].res.before.headless =>
                      mgr.launched = hnd[1].res.before.launched

\* without a profile directory the page of a successful browser_show is at
\* the URL that was open before and a headed browser is not relaunched; what
\* fails is that the headless browser stays open
C23_WithoutProfile ==
    ~mgr.userDataDir =>
        /\ HeadedNotRelaunched
        /\ ShowSucceeded =>
              /\ mgr.browser \in mgr.browsers /\ ~mgr.modes[mgr.browser]
              /\ hnd[1].res.before.hadPage => page = hnd[1].res.before.url

\* a successful browser_show that relaunched a headless browser with a page
\* on a document
C23_ShowRelaunched ==
    /\ ShowSucceeded
    /\ hnd[1].res.message = "Browser opened (headed)"
    /\ hnd[1].res.before.hadPage /\ hnd[1].res.before.url \in ActDocs
    /\ hnd[1].res.before.headless /\ ~mgr.headless
    /\ mgr.launched = hnd[1].res.before.launched + 1

====
